---- MODULE Spec2Model ----
(***************************************************************************)
(* The charting view (VisualAnalysis) of the dashboard: the simulated      *)
(* streaming feed (MockWebSocket), the live-stream effect that owns it,    *)
(* the tick handler with its sliding window, and the indicator enrichment  *)
(* (SMA 20, Wilder RSI 14) that every write of the series goes through.    *)
(*                                                                         *)
(* Numbers.  Prices are counted in cents (value 100 is 1.00), so that the  *)
(* toFixed(2) rounding of the tick handler is a rounding to an integer.    *)
(* The derived fields sma and rsi are exact rationals <<num, den>> in      *)
(* lowest terms; null is the empty tuple.  Floating-point rounding of the  *)
(* JS Number type is not modelled.                                         *)
(*                                                                         *)
(* Scheduling.  A state update made by a click handler and the effect run  *)
(* it causes are one step (React flushes the effects of a discrete event   *)
(* before the next task); a timer callback is a step of its own, and       *)
(* timers fire in any order (no clock is modelled).                        *)
(***************************************************************************)
EXTENDS Integers, Sequences, FiniteSets, TLC

VARIABLES
    isLive,            \* useState(false), line 192
    connectionStatus,  \* useState('DISCONNECTED'), line 193
    socketRef,         \* useRef: 0 is null, else the index of a socket
    sockets,           \* every MockWebSocket constructed so far
    data,              \* useState([]), line 152: the series on the chart
    comparisons,       \* useState([]), line 172
    searchedSymbol,    \* useState(''), line 154
    period,            \* useState, line 140
    loading,           \* useState(false), line 153
    error,             \* useState(null), line 155: TRUE when a message is set
    history,           \* useState([]), line 182, and its copy in localStorage
    pending,           \* the fetchAllData calls waiting for getGraphData
    mounted,           \* the view is mounted
    now,               \* Date.now(), in milliseconds
    clock,             \* wall clock: the number of ticks the view has handled
    series,            \* an array a caller holds and passes to the enrichment
    calls              \* the calls of enrichDataWithIndicators made on it, in order

vars ==
    <<isLive, connectionStatus, socketRef, sockets, data, comparisons,
      searchedSymbol, period, loading, error, history, pending, mounted, now, clock,
      series, calls>>

\* the state of the live session
liveVars ==
    <<isLive, connectionStatus, socketRef, sockets>>

\* the state of the loaders
loadVars ==
    <<searchedSymbol, period, loading, error, history, pending>>

\* the state of the view
viewVars ==
    <<liveVars, data, comparisons, loadVars, mounted, now, clock>>

\* the caller of the enrichment and the record of its calls
engineVars ==
    <<series, calls>>

----------------------------------------------------------------------------
(* Bounds of the model and constants of the program *)

MaxSockets ==
    2

MaxTicks ==
    2

MaxFetches ==
    1

MaxTimeSteps ==
    1

MaxWindowTicks ==
    101

WindowCap ==
    100

rsiPeriod ==
    14

smaPeriod ==
    20

\* Math.random() - 0.5 times 0.004 lies in [-0.002, 0.002): in units of 1/10000
Changes ==
    {-20, 19}

Symbols ==
    {"MSFT"}

Absent ==
    <<>>

----------------------------------------------------------------------------
(* Exact rational arithmetic for the JS Number operations of the enrichment *)

Abs(x) ==
    IF x < 0 THEN -x ELSE x

RECURSIVE GCD(_, _)
GCD(a, b) ==
    IF b = 0 THEN a ELSE GCD(b, a % b)

Rat(n, d) ==
    LET g == GCD(Abs(n), d)
    IN  IF g = 0 THEN <<0, 1>> ELSE <<n \div g, d \div g>>

RAdd(a, b) ==
    Rat(a[1] * b[2] + b[1] * a[2], a[2] * b[2])

RSub(a, b) ==
    Rat(a[1] * b[2] - b[1] * a[2], a[2] * b[2])

RMulInt(a, k) ==
    Rat(a[1] * k, a[2])

RDivInt(a, k) ==
    Rat(a[1], a[2] * k)

\* a / b for b > 0 (common factors are cancelled before the products)
RDiv(a, b) ==
    LET gn == GCD(Abs(a[1]), b[1])
        gd == GCD(a[2], b[2])
    IN  Rat((a[1] \div gn) * (b[2] \div gd), (a[2] \div gd) * (b[1] \div gn))

RLeq(a, b) ==
    a[1] * b[2] <= b[1] * a[2]

----------------------------------------------------------------------------
(* enrichDataWithIndicators: the points are functions from field names to  *)
(* values; index i is the 0-based index of the code.                       *)

At(seq, i) ==
    seq[i + 1]

\* an assignment that leaves a field alone when the record has it
SetFieldKeepsStale(rec, f, v) ==
    [g \in DOMAIN rec \cup {f} |-> IF g \in DOMAIN rec THEN rec[g] ELSE v]

SetField(rec, f, v) ==
    [g \in DOMAIN rec \cup {f} |-> IF g = f THEN v ELSE rec[g]]

\* Number(x) of a value that is a number already
Number(x) ==
    x

\* a copy that turns the order of the points round
CopyPointsReversed(rawData) ==
    [k \in 1..Len(rawData) |-> rawData[Len(rawData) + 1 - k]]

\* rawData.map(item => ({ ...item, value: Number(item.value) }))
CopyPoints(rawData) ==
    [k \in 1..Len(rawData) |-> SetField(rawData[k], "value", Number(rawData[k].value))]

\* the inner loop of the SMA: enriched[i].value + ... + enriched[i - (smaPeriod-1)].value
RECURSIVE SumBack(_, _, _)
SumBack(enriched, i, j) ==
    IF j = smaPeriod THEN 0
    ELSE At(enriched, i - j).value + SumBack(enriched, i, j + 1)

\* an average that is 0 until the window is full
smaAtZeroFilled(enriched, i) ==
    IF i >= smaPeriod - 1 THEN Rat(SumBack(enriched, i, 0), smaPeriod) ELSE <<0, 1>>

\* an average over the window that ends one point later, when there is one
smaAtLookAhead(enriched, i) ==
    IF i >= smaPeriod - 1
    THEN Rat(SumBack(enriched, IF i + 1 < Len(enriched) THEN i + 1 ELSE i, 0), smaPeriod)
    ELSE Absent

smaAt(enriched, i) ==
    IF i >= smaPeriod - 1 THEN Rat(SumBack(enriched, i, 0), smaPeriod) ELSE Absent

\* the textbook index: 100 when there is no loss
rsiOfTextbook(avgGain, avgLoss) ==
    IF avgLoss = <<0, 1>> THEN <<100, 1>>
    ELSE RSub(<<100, 1>>, RDiv(<<100, 1>>, RAdd(<<1, 1>>, RDiv(avgGain, avgLoss))))

\* an index that is the ratio itself, as a percentage
rsiOfRatio(avgGain, avgLoss) ==
    IF avgLoss = <<0, 1>> THEN <<100, 1>> ELSE RMulInt(RDiv(avgGain, avgLoss), 100)

\* rs = avgLoss === 0 ? 100 : avgGain / avgLoss;  100 - (100 / (1 + rs))
rsiOf(avgGain, avgLoss) ==
    LET rs == IF avgLoss = <<0, 1>> THEN <<100, 1>> ELSE RDiv(avgGain, avgLoss)
    IN  RSub(<<100, 1>>, RDiv(<<100, 1>>, RAdd(<<1, 1>>, rs)))

gainOf(enriched, i) ==
    LET change == At(enriched, i).value - At(enriched, i - 1).value
    IN  IF change > 0 THEN change ELSE 0

lossOf(enriched, i) ==
    LET change == At(enriched, i).value - At(enriched, i - 1).value
    IN  IF change < 0 THEN Abs(change) ELSE 0

\* a smoothing that gives the carried average the weight rsiPeriod
loopStepUnweighted(enriched, i, st) ==
    IF i = 0 THEN st
    ELSE
      LET gain == <<gainOf(enriched, i), 1>>
          loss == <<lossOf(enriched, i), 1>>
      IN  IF i < rsiPeriod
          THEN [avgGain |-> RAdd(st.avgGain, gain), avgLoss |-> RAdd(st.avgLoss, loss)]
          ELSE IF i = rsiPeriod
          THEN [avgGain |-> RDivInt(RAdd(st.avgGain, gain), rsiPeriod),
                avgLoss |-> RDivInt(RAdd(st.avgLoss, loss), rsiPeriod)]
          ELSE [avgGain |-> RDivInt(RAdd(RMulInt(st.avgGain, rsiPeriod), gain), rsiPeriod),
                avgLoss |-> RDivInt(RAdd(RMulInt(st.avgLoss, rsiPeriod), loss), rsiPeriod)]

\* one iteration of the for loop on the smoothing state: st is avgGain and
\* avgLoss as they stand when iteration i begins, the result as they stand
\* when it ends
loopStep(enriched, i, st) ==
    IF i = 0 THEN st
    ELSE
      LET gain == <<gainOf(enriched, i), 1>>
          loss == <<lossOf(enriched, i), 1>>
      IN  IF i < rsiPeriod
          THEN [avgGain |-> RAdd(st.avgGain, gain), avgLoss |-> RAdd(st.avgLoss, loss)]
          ELSE IF i = rsiPeriod
          THEN [avgGain |-> RDivInt(RAdd(st.avgGain, gain), rsiPeriod),
                avgLoss |-> RDivInt(RAdd(st.avgLoss, loss), rsiPeriod)]
          ELSE [avgGain |-> RDivInt(RAdd(RMulInt(st.avgGain, rsiPeriod - 1), gain), rsiPeriod),
                avgLoss |-> RDivInt(RAdd(RMulInt(st.avgLoss, rsiPeriod - 1), loss), rsiPeriod)]

\* the smoothing state at the end of each of the iterations lo .. hi, in
\* order, from the state st at the beginning of iteration lo (the range is
\* halved to keep the evaluation shallow; the steps run in index order)
RECURSIVE loopStates(_, _, _, _)
loopStates(enriched, lo, hi, st) ==
    IF lo = hi THEN <<loopStep(enriched, lo, st)>>
    ELSE LET mid  == (lo + hi) \div 2
             left == loopStates(enriched, lo, mid, st)
         IN  left \o loopStates(enriched, mid + 1, hi, left[Len(left)])

\* an rsi that is written one iteration early
rsiAtEarly(i, st) ==
    IF i >= rsiPeriod - 1 THEN rsiOf(st.avgGain, st.avgLoss) ELSE Absent

\* current.rsi of iteration i, st the smoothing state at its end
rsiAt(i, st) ==
    IF i >= rsiPeriod THEN rsiOf(st.avgGain, st.avgLoss) ELSE Absent

\* averages that live on from the call before
localsLeftOver ==
    IF calls = <<>> THEN [avgGain |-> <<0, 1>>, avgLoss |-> <<0, 1>>]
    ELSE calls[Len(calls)].locals

\* let avgGain = 0; let avgLoss = 0: the locals every call declares
localsAtEntry ==
    [avgGain |-> <<0, 1>>, avgLoss |-> <<0, 1>>]

enrichDataWithIndicators(rawData) ==
    IF Len(rawData) = 0 THEN <<>>
    ELSE LET enriched == CopyPoints(rawData)
             states   == loopStates(enriched, 0, Len(enriched) - 1, localsAtEntry)
         IN  [k \in 1..Len(enriched) |->
                SetField(SetField(enriched[k], "sma", smaAt(enriched, k - 1)),
                         "rsi", rsiAt(k - 1, states[k]))]

\* avgGain and avgLoss as they stand when the call returns (the early
\* return for an empty array comes before they are declared)
localsAtReturn(rawData) ==
    IF Len(rawData) = 0 THEN localsAtEntry
    ELSE LET enriched == CopyPoints(rawData)
             states   == loopStates(enriched, 0, Len(enriched) - 1, localsAtEntry)
         IN  states[Len(states)]

\* an enrichment that writes to the records it was given
enrichInPlace(rawData) ==
    enrichDataWithIndicators(rawData)

\* the caller's array after the call: the loop assigns value, sma and rsi
\* to the records of enriched, which map() and the object literal have
\* created; no statement writes to rawData or to one of its records
inputAfter(rawData) ==
    rawData

\* one call: the argument as passed, the argument after the call, the
\* array returned, and the locals at the return
enrichCall(rawData) ==
    [rawData |-> rawData,
     after   |-> inputAfter(rawData),
     ret     |-> enrichDataWithIndicators(rawData),
     locals  |-> localsAtReturn(rawData)]

----------------------------------------------------------------------------
(* MockWebSocket.  A socket is a record: openTimer is the pending          *)
(* setTimeout of the constructor (its handle is not kept by the code),     *)
(* intervalId is the field of the class ("null", or the handle of an       *)
(* interval that is "active" or has been "cleared"), comps is the          *)
(* comparison list captured by the onmessage closure.  onopen and          *)
(* onmessage are assigned in the task that constructs the socket and       *)
(* never reset; onclose is never assigned.                                 *)

MockWebSocket(comps) ==
    [openTimer |-> TRUE, intervalId |-> "null", comps |-> comps]

\* a stream that is never started
startStreamForgotten(sock) ==
    sock

startStream(sock) ==
    [sock EXCEPT !.intervalId = "active"]

\* a close that flips the interval instead of clearing it
closeFlips(sock) ==
    [sock EXCEPT !.intervalId = CASE @ = "active"  -> "cleared"
                                  [] @ = "cleared" -> "active"
                                  [] OTHER         -> @]

\* if (this.intervalId) clearInterval(this.intervalId); onclose is null
close(sock) ==
    [sock EXCEPT !.intervalId = IF @ = "null" THEN "null" ELSE "cleared"]

\* if (socketRef.current) socketRef.current.close()
closeCurrent(socks, ref) ==
    IF ref = 0 THEN socks ELSE [socks EXCEPT ![ref] = close(@)]

Range(seq) ==
    {seq[k] : k \in 1..Len(seq)}

SocketIds ==
    1..Len(sockets)

----------------------------------------------------------------------------
(* The tick handler: ws.onmessage and its setData updater *)

\* a price cut off after the second decimal
tickPriceTruncated(v, change) ==
    (v * (10000 + change)) \div 10000

\* Number((v * (1 + change)).toFixed(2)) for v in cents, change in 1/10000
tickPrice(v, change) ==
    (2 * v * (10000 + change) + 10000) \div 20000

\* if (lastItem[comp]): the key is present and its value is not 0
Truthy(item, key) ==
    key \in DOMAIN item /\ item[key] # 0

RECURSIVE withComparisons(_, _, _, _)
withComparisons(newPoint, lastItem, comps, compChange) ==
    IF comps = <<>> THEN newPoint
    ELSE LET comp == Head(comps)
             next == IF Truthy(lastItem, comp)
                     THEN SetField(newPoint, comp, tickPrice(Number(lastItem[comp]), compChange[comp]))
                     ELSE newPoint
         IN  withComparisons(next, lastItem, Tail(comps), compChange)

\* const newData = [...prevData, newPoint]; if (newData.length > 100) newData.shift()
slideWindow(prevData, newPoint) ==
    LET newData == Append(prevData, newPoint)
    IN  IF Len(newData) > WindowCap THEN Tail(newData) ELSE newData

\* an updater without the guard of line 279: on an empty series it starts
\* from a last price of 0
tickUpdaterFabricates(prevData, change, comps, compChange, stamp) ==
    IF Len(prevData) = 0
    THEN enrichDataWithIndicators(<<[date |-> stamp, value |-> tickPrice(0, change)]>>)
    ELSE LET lastItem  == prevData[Len(prevData)]
             lastPrice == Number(lastItem.value)
             newPoint  == [date |-> stamp, value |-> tickPrice(lastPrice, change)]
             full      == withComparisons(newPoint, lastItem, comps, compChange)
         IN  enrichDataWithIndicators(slideWindow(prevData, full))

\* an updater that enriches the appended series and evicts afterwards
tickUpdaterEnrichFirst(prevData, change, comps, compChange, stamp) ==
    IF Len(prevData) = 0 THEN prevData
    ELSE LET lastItem  == prevData[Len(prevData)]
             lastPrice == Number(lastItem.value)
             newPoint  == [date |-> stamp, value |-> tickPrice(lastPrice, change)]
             full      == withComparisons(newPoint, lastItem, comps, compChange)
             all       == enrichDataWithIndicators(Append(prevData, full))
         IN  IF Len(all) > WindowCap THEN Tail(all) ELSE all

tickUpdater(prevData, change, comps, compChange, stamp) ==
    IF Len(prevData) = 0 THEN prevData
    ELSE LET lastItem  == prevData[Len(prevData)]
             lastPrice == Number(lastItem.value)
             newPoint  == [date |-> stamp, value |-> tickPrice(lastPrice, change)]
             full      == withComparisons(newPoint, lastItem, comps, compChange)
         IN  enrichDataWithIndicators(slideWindow(prevData, full))

----------------------------------------------------------------------------
(* The live-stream effect, lines 266-321: the cleanup of the previous run  *)
(* and then the body, for the new values of isLive and comparisons.        *)

\* the else branch after the cleanup: the session state a stop leaves
stopSession(sess) ==
    LET cleaned == closeCurrent(sess.sockets, sess.socketRef)
    IN  [sockets          |-> closeCurrent(cleaned, sess.socketRef),
         socketRef        |-> 0,
         connectionStatus |-> "DISCONNECTED"]

\* the if branch after the cleanup: the session state a start leaves
startSession(sess, newComparisons) ==
    LET cleaned == closeCurrent(sess.sockets, sess.socketRef)
    IN  [sockets          |-> Append(cleaned, MockWebSocket(newComparisons)),
         socketRef        |-> Len(sess.sockets) + 1,
         connectionStatus |-> "CONNECTING"]

session ==
    [sockets |-> sockets, socketRef |-> socketRef, connectionStatus |-> connectionStatus]

liveEffect(newIsLive, newComparisons) ==
    LET next == IF newIsLive THEN startSession(session, newComparisons)
                ELSE stopSession(session)
    IN  /\ newIsLive => Len(sockets) < MaxSockets
        /\ sockets' = next.sockets
        /\ socketRef' = next.socketRef
        /\ connectionStatus' = next.connectionStatus

\* the chart header (and the toggle in it) is rendered, line 673
headerVisible ==
    mounted /\ searchedSymbol # "" /\ ~error /\ ~loading

ToggleLive ==
    /\ headerVisible
    /\ isLive' = ~isLive
    /\ liveEffect(~isLive, comparisons)
    /\ UNCHANGED <<data, comparisons, loadVars, mounted, now, clock, engineVars>>

\* the callback of the constructor's setTimeout: onopen(), then startStream()
OpenTimerFires(s) ==
    /\ sockets[s].openTimer
    /\ connectionStatus' = IF mounted THEN "CONNECTED" ELSE connectionStatus
    /\ sockets' = [sockets EXCEPT ![s] = startStream([@ EXCEPT !.openTimer = FALSE])]
    /\ UNCHANGED <<isLive, socketRef, data, comparisons, loadVars, mounted, now, clock, engineVars>>

\* the callback of setInterval: onmessage({type: 'TICK', change}); the
\* updater, and with it new Date(), runs only while the view is mounted
IntervalFires(s, change, compChange) ==
    /\ sockets[s].intervalId = "active"
    /\ IF mounted
       THEN /\ clock' = clock + 1
            /\ data' = tickUpdater(data, change, sockets[s].comps, compChange, clock + 1)
       ELSE UNCHANGED <<data, clock>>
    /\ UNCHANGED <<liveVars, comparisons, loadVars, mounted, now, engineVars>>

\* the view is unmounted: the cleanup of the last effect run
Unmount ==
    /\ mounted
    /\ mounted' = FALSE
    /\ sockets' = closeCurrent(sockets, socketRef)
    /\ UNCHANGED <<isLive, connectionStatus, socketRef, data, comparisons, loadVars, now, clock, engineVars>>

----------------------------------------------------------------------------
(* The loaders of the series: fetchAllData, loadHistoryItem, the           *)
(* comparison handlers, and the chart history they share.                  *)

CacheTtl ==
    300000

HistoryCap ==
    10

Periods ==
    {"1W", "1M"}

\* what the user can have typed in the search box
SymbolInputs ==
    {"", "aapl"}

\* what the user can have typed in the comparison box
CompareInputs ==
    {"msft"}

trim(str) ==
    IF str = " " THEN "" ELSE str

toUpperCase(str) ==
    CASE str = "aapl" -> "AAPL"
      [] str = "msft" -> "MSFT"
      [] OTHER -> str

Includes(seq, x) ==
    \E k \in 1..Len(seq) : seq[k] = x

\* Array.prototype.slice(start)
slice(seq, start) ==
    SubSeq(seq, start + 1, Len(seq))

\* the value setHistory's updater returns, lines 376-381
addToHistory(prev, sym, per, chartData, timestamp) ==
    LET newItem  == [symbol |-> sym, period |-> per, data |-> chartData, timestamp |-> timestamp]
        Other(item) == ~(item.symbol = sym /\ item.period = per)
        filtered == SelectSeq(prev, Other)
    IN  slice(<<newItem>> \o filtered, HistoryCap)

\* hist.find(h => h.symbol === term.toUpperCase() && h.period === currPeriod)
cacheFind(hist, term, currPeriod) ==
    LET Match(h) == h.symbol = toUpperCase(term) /\ h.period = currPeriod
        found    == SelectSeq(hist, Match)
    IN  IF found = <<>> THEN <<>> ELSE <<Head(found)>>

cacheHit(mainSym, compSyms, currPeriod) ==
    /\ Len(compSyms) = 0
    /\ cacheFind(history, trim(mainSym), currPeriod) # <<>>
    /\ now - cacheFind(history, trim(mainSym), currPeriod)[1].timestamp < CacheTtl

\* mergedData.sort((a, b) => new Date(a.date) - new Date(b.date)): a stable
\* insertion of each point behind the points that are not later than it
RECURSIVE insertByDate(_, _)
insertByDate(sorted, point) ==
    IF sorted = <<>> THEN <<point>>
    ELSE IF sorted[Len(sorted)].date <= point.date THEN Append(sorted, point)
    ELSE Append(insertByDate(SubSeq(sorted, 1, Len(sorted) - 1), point), sorted[Len(sorted)])

RECURSIVE sortByDate(_)
sortByDate(seq) ==
    IF seq = <<>> THEN <<>>
    ELSE insertByDate(sortByDate(SubSeq(seq, 1, Len(seq) - 1)), seq[Len(seq)])

\* The state after fetchAllData(mainSym, compSyms, currPeriod) has run up to
\* its first await, called by a handler that has set period to newPeriod
\* and, when compsSet, has called setComparisons(newComparisons).  The
\* live-stream effect runs again when isLive or comparisons was set to
\* a new value (a new array is a new value).
fetchAllData(mainSym, compSyms, currPeriod, newPeriod, compsSet, newComparisons) ==
    LET term == trim(mainSym)
    IN  IF term = ""
        THEN /\ period' = newPeriod
             /\ comparisons' = newComparisons
             /\ IF compsSet
                THEN liveEffect(isLive, newComparisons)
                ELSE UNCHANGED <<connectionStatus, socketRef, sockets>>
             /\ UNCHANGED <<isLive, data, searchedSymbol, loading, error, pending>>
        ELSE IF cacheHit(mainSym, compSyms, currPeriod)
        THEN /\ searchedSymbol' = term
             /\ period' = currPeriod
             /\ data' = enrichDataWithIndicators(cacheFind(history, term, currPeriod)[1].data)
             /\ comparisons' = <<>>
             /\ isLive' = FALSE
             /\ liveEffect(FALSE, <<>>)
             /\ error' = FALSE
             /\ loading' = FALSE
             /\ UNCHANGED pending
        ELSE /\ Cardinality(pending) < MaxFetches
             /\ loading' = TRUE
             /\ searchedSymbol' = term
             /\ period' = newPeriod
             /\ comparisons' = newComparisons
             /\ isLive' = FALSE
             /\ IF isLive \/ compsSet
                THEN liveEffect(FALSE, newComparisons)
                ELSE UNCHANGED <<connectionStatus, socketRef, sockets>>
             /\ error' = FALSE
             /\ pending' = pending \cup {[term |-> term, compSyms |-> compSyms, currPeriod |-> currPeriod]}
             /\ UNCHANGED data

\* the search button: fetchAllData(symbol, comparisons, period)
handleSearchWrapper(symbol) ==
    /\ mounted
    /\ fetchAllData(symbol, comparisons, period, period, FALSE, comparisons)
    /\ UNCHANGED <<history, mounted, now, clock, engineVars>>

\* a period button: setPeriod(p); fetchAllData(symbol, comparisons, p)
handleSearchPeriod(symbol, p) ==
    /\ headerVisible
    /\ ~isLive
    /\ fetchAllData(symbol, comparisons, p, p, FALSE, comparisons)
    /\ UNCHANGED <<history, mounted, now, clock, engineVars>>

handleAddComparison(compareInput) ==
    /\ headerVisible
    /\ trim(compareInput) # ""
    /\ ~Includes(comparisons, toUpperCase(compareInput))
    /\ Len(comparisons) < 2
    /\ LET newComparisons == Append(comparisons, toUpperCase(compareInput))
       IN  fetchAllData(searchedSymbol, newComparisons, period, period, TRUE, newComparisons)
    /\ UNCHANGED <<history, mounted, now, clock, engineVars>>

handleRemoveComparison(compToRemove) ==
    /\ headerVisible
    /\ Includes(comparisons, compToRemove)
    /\ LET Other(c) == c # compToRemove
           newComparisons == SelectSeq(comparisons, Other)
       IN  fetchAllData(searchedSymbol, newComparisons, period, period, TRUE, newComparisons)
    /\ UNCHANGED <<history, mounted, now, clock, engineVars>>

loadHistoryItem(item) ==
    /\ mounted
    /\ searchedSymbol' = item.symbol
    /\ period' = item.period
    /\ comparisons' = <<>>
    /\ isLive' = FALSE
    /\ liveEffect(FALSE, <<>>)
    /\ data' = enrichDataWithIndicators(item.data)
    /\ error' = FALSE
    /\ UNCHANGED <<loading, history, pending, mounted, now, clock, engineVars>>

\* .filter(item => item.date && item.value !== undefined)
\* .map(item => ({ date: item.date, value: Number(item.value) }))
cleanResult(mainResult) ==
    LET Usable(item) == "date" \in DOMAIN item /\ "value" \in DOMAIN item
        kept == SelectSeq(mainResult, Usable)
    IN  [k \in 1..Len(kept) |-> [date |-> kept[k].date, value |-> Number(kept[k].value)]]

\* the merge of the comparison results, lines 496-509: matched is the set of
\* comparison symbols whose result has a point of the same date
RECURSIVE mergePoint(_, _, _)
mergePoint(point, compSyms, matched) ==
    IF compSyms = <<>> THEN point
    ELSE LET compSym == Head(compSyms)
             next == IF compSym \in DOMAIN matched
                     THEN SetField(point, compSym, Number(matched[compSym]))
                     ELSE point
         IN  mergePoint(next, Tail(compSyms), matched)

\* a pending fetchAllData resumes: outcome.kind is "throw" when the code
\* after the await raises (an answer that holds a null element), else
\* outcome.main is the answer for the main symbol and outcome.matched the
\* values found for the comparison symbols
fetchReturns(req, outcome) ==
    /\ req \in pending
    /\ pending' = pending \ {req}
    /\ IF ~mounted
       THEN UNCHANGED <<data, loading, error, history>>
       ELSE IF outcome.kind = "throw"
       THEN /\ error' = TRUE
            /\ loading' = FALSE
            /\ UNCHANGED <<data, history>>
       ELSE IF Len(outcome.main) = 0
       THEN /\ error' = TRUE
            /\ data' = <<>>
            /\ loading' = FALSE
            /\ UNCHANGED history
       ELSE LET cleaned == cleanResult(outcome.main)
                matched == [c \in DOMAIN outcome.matched \cap Range(req.compSyms) |-> outcome.matched[c]]
                merged  == [k \in 1..Len(cleaned) |-> mergePoint(cleaned[k], req.compSyms, matched)]
                enrichedData == enrichDataWithIndicators(sortByDate(merged))
            IN  /\ data' = enrichedData
                /\ history' = IF Len(req.compSyms) = 0
                              THEN addToHistory(history, toUpperCase(req.term), req.currPeriod,
                                                enrichedData, now)
                              ELSE history
                /\ loading' = FALSE
                /\ UNCHANGED error
    /\ UNCHANGED <<liveVars, comparisons, searchedSymbol, period, mounted, now, clock, engineVars>>

\* Date.now() moves on
timePasses ==
    /\ now < MaxTimeSteps * CacheTtl
    /\ now' = now + CacheTtl
    /\ UNCHANGED <<liveVars, data, comparisons, loadVars, mounted, clock, engineVars>>

----------------------------------------------------------------------------
(* Spec: the view from its mount on *)

\* a fetched series of n points at one price, the last one dated 0 (the
\* ticks are dated 1, 2, ...)
historySeries(n, price) ==
    [k \in 1..n |-> [date |-> k - n, value |-> price]]

\* the interval of socket s fires, with whatever Math.random() returns
TickOf(s) ==
    \E change \in Changes :
        \E compChange \in [Range(sockets[s].comps) -> Changes] :
            IntervalFires(s, change, compChange)

Tick ==
    \E s \in SocketIds : TickOf(s)

OpenTimer ==
    \E s \in SocketIds : OpenTimerFires(s)

\* what getGraphData can answer for the main symbol
MainResults ==
    { <<>>,
      <<[value |-> 100]>>,
      <<[date |-> 0, value |-> 300]>>,
      <<[date |-> 0, value |-> 100], [date |-> -1, value |-> 100]>> }

FetchOutcomes ==
    {[kind |-> "throw"]}
      \cup {[kind |-> "ok", main |-> m, matched |-> f] :
              m \in MainResults, f \in {[c \in {} |-> 100], [c \in Symbols |-> 100]}}

\* what localStorage can hold under visual_analysis_history when the view
\* mounts: nothing, an entry the view has stored, an entry with a blank symbol
StoredHistories ==
    { <<>>,
      <<[symbol |-> "AAPL", period |-> "1M", data |-> historySeries(2, 100), timestamp |-> 0]>>,
      <<[symbol |-> " ", period |-> "1M", data |-> historySeries(1, 100), timestamp |-> 0]>> }

Init ==
    /\ isLive = FALSE
    /\ connectionStatus = "DISCONNECTED"
    /\ socketRef = 0
    /\ sockets = <<>>
    /\ data = <<>>
    /\ comparisons = <<>>
    /\ searchedSymbol = ""
    /\ period = "1M"
    /\ loading = FALSE
    /\ error = FALSE
    /\ history \in StoredHistories
    /\ pending = {}
    /\ mounted = TRUE
    /\ now = 0
    /\ clock = 0
    /\ series = <<>>
    /\ calls = <<>>

Search ==
    \E symbol \in SymbolInputs : handleSearchWrapper(symbol)

SelectPeriod ==
    \E symbol \in SymbolInputs, p \in Periods : handleSearchPeriod(symbol, p)

AddComparison ==
    \E compareInput \in CompareInputs : handleAddComparison(compareInput)

RemoveComparison ==
    \E comp \in Symbols : handleRemoveComparison(comp)

LoadHistory ==
    \E k \in 1..Len(history) : loadHistoryItem(history[k])

FetchDone ==
    \E req \in pending, outcome \in FetchOutcomes : fetchReturns(req, outcome)

Next ==
    \/ ToggleLive
    \/ OpenTimer
    \/ (clock < MaxTicks /\ Tick)
    \/ Unmount
    \/ Search
    \/ SelectPeriod
    \/ AddComparison
    \/ RemoveComparison
    \/ LoadHistory
    \/ FetchDone
    \/ timePasses

Spec ==
    Init /\ [][Next]_vars

----------------------------------------------------------------------------
(* SpecWindow: a live session on a series that has been loaded, followed   *)
(* for more than WindowCap ticks.  The initial states are the states of    *)
(* the view after a search for "aapl" whose answer was a series of n       *)
(* points (the history is empty after it: see addToHistory).               *)

WindowStartLengths ==
    {1, WindowCap, WindowCap + 1}

InitWindow ==
    /\ isLive = FALSE
    /\ connectionStatus = "DISCONNECTED"
    /\ socketRef = 0
    /\ sockets = <<>>
    /\ \E n \in WindowStartLengths : data = enrichDataWithIndicators(historySeries(n, 100))
    /\ comparisons = <<>>
    /\ searchedSymbol = "aapl"
    /\ period = "1M"
    /\ loading = FALSE
    /\ error = FALSE
    /\ history = <<>>
    /\ pending = {}
    /\ mounted = TRUE
    /\ now = 0
    /\ clock = 0
    /\ series = <<>>
    /\ calls = <<>>

NextWindow ==
    \/ ToggleLive
    \/ OpenTimer
    \/ (clock < MaxWindowTicks /\ Tick)
    \/ Unmount

SpecWindow ==
    InitWindow /\ [][NextWindow]_vars

----------------------------------------------------------------------------
(* SpecSession: the live session alone, on a short series that has been    *)
(* loaded; FairSession adds that every timer that is set fires.            *)

SessionStartLengths ==
    {0, 2}

SessionStartPrices ==
    {100, 300}

InitSession ==
    /\ isLive = FALSE
    /\ connectionStatus = "DISCONNECTED"
    /\ socketRef = 0
    /\ sockets = <<>>
    /\ \E n \in SessionStartLengths, price \in SessionStartPrices :
          data = enrichDataWithIndicators(historySeries(n, price))
    /\ comparisons = <<>>
    /\ searchedSymbol = "aapl"
    /\ period = "1M"
    /\ loading = FALSE
    /\ error = FALSE
    /\ history = <<>>
    /\ pending = {}
    /\ mounted = TRUE
    /\ now = 0
    /\ clock = 0
    /\ series = <<>>
    /\ calls = <<>>

NextSession ==
    \/ ToggleLive
    \/ OpenTimer
    \/ (clock < MaxTicks /\ Tick)
    \/ Unmount

SpecSession ==
    InitSession /\ [][NextSession]_vars

FairSession ==
    /\ SpecSession
    /\ \A s \in 1..MaxSockets :
         /\ WF_vars(s \in SocketIds /\ OpenTimerFires(s))
         /\ WF_vars(s \in SocketIds /\ clock < MaxTicks /\ TickOf(s))

----------------------------------------------------------------------------
(* SpecEvict: a live session on a loaded series that fills the window, or  *)
(* lacks one point to fill it, followed for the first ticks.               *)

EvictStartLengths ==
    {WindowCap - 1, WindowCap}

InitEvict ==
    /\ isLive = FALSE
    /\ connectionStatus = "DISCONNECTED"
    /\ socketRef = 0
    /\ sockets = <<>>
    /\ \E n \in EvictStartLengths : data = enrichDataWithIndicators(historySeries(n, 100))
    /\ comparisons = <<>>
    /\ searchedSymbol = "aapl"
    /\ period = "1M"
    /\ loading = FALSE
    /\ error = FALSE
    /\ history = <<>>
    /\ pending = {}
    /\ mounted = TRUE
    /\ now = 0
    /\ clock = 0
    /\ series = <<>>
    /\ calls = <<>>

SpecEvict ==
    InitEvict /\ [][NextSession]_vars

----------------------------------------------------------------------------
(* SpecCompare: a live session on a loaded series that is compared with    *)
(* MSFT.  The initial states are the states of the view after the          *)
(* comparison was added and the fetch answered: the merge of lines         *)
(* 496-509 gives a point the key MSFT when the comparison result has a     *)
(* point of its date, with the value Number(match.value), which is 0 for   *)
(* a value of 0, null or "".                                               *)

\* the last point after the merge: without a match, or with the value
ComparedLast ==
    {[date |-> 0, value |-> 300],
     [date |-> 0, value |-> 300, MSFT |-> 0],
     [date |-> 0, value |-> 300, MSFT |-> 300]}

InitCompare ==
    /\ isLive = FALSE
    /\ connectionStatus = "DISCONNECTED"
    /\ socketRef = 0
    /\ sockets = <<>>
    /\ \E last \in ComparedLast :
          data = enrichDataWithIndicators(<<[date |-> -1, value |-> 300, MSFT |-> 300], last>>)
    /\ comparisons = <<"MSFT">>
    /\ searchedSymbol = "aapl"
    /\ period = "1M"
    /\ loading = FALSE
    /\ error = FALSE
    /\ history = <<>>
    /\ pending = {}
    /\ mounted = TRUE
    /\ now = 0
    /\ clock = 0
    /\ series = <<>>
    /\ calls = <<>>

SpecCompare ==
    InitCompare /\ [][NextSession]_vars

----------------------------------------------------------------------------
(* SpecEngine: enrichDataWithIndicators alone, called as the view calls it: *)
(* on a series a fetch has answered (line 513), on an array it has         *)
(* returned before (the stored series of lines 423 and 459), and on such   *)
(* an array after the shift of the tick handler (line 303).                *)

MaxCalls ==
    3

EngineLengths ==
    {0, 1, 3, 14, 15, 16, 19, 20, 21}

Shapes ==
    {"flat", "up", "down", "zigzag", "dip", "step"}

\* the value of the point of index i
shapeValue(shape, i) ==
    CASE shape = "flat"   -> 50
      [] shape = "up"     -> 100 + i
      [] shape = "down"   -> 100 - i
      [] shape = "zigzag" -> 100 + 2 * (i % 2)
      [] shape = "dip"    -> IF i = 3 THEN 97 ELSE 100
      [] shape = "step"   -> IF i = 0 THEN 100 ELSE IF i = 1 THEN 102 ELSE 101

\* a series of n points, dated like historySeries, with a comparison
\* series under the key MSFT when compared
engineSeries(shape, n, compared) ==
    [k \in 1..n |->
        IF compared
        THEN [date |-> k - n, value |-> shapeValue(shape, k - 1), MSFT |-> 200 + k]
        ELSE [date |-> k - n, value |-> shapeValue(shape, k - 1)]]

EngineInputs ==
    {engineSeries(shape, n, compared) :
        shape \in Shapes, n \in EngineLengths, compared \in BOOLEAN}

InitEngine ==
    /\ series \in EngineInputs
    /\ calls = <<>>
    /\ isLive = FALSE
    /\ connectionStatus = "DISCONNECTED"
    /\ socketRef = 0
    /\ sockets = <<>>
    /\ data = <<>>
    /\ comparisons = <<>>
    /\ searchedSymbol = ""
    /\ period = "1M"
    /\ loading = FALSE
    /\ error = FALSE
    /\ history = <<>>
    /\ pending = {}
    /\ mounted = TRUE
    /\ now = 0
    /\ clock = 0

lastCall ==
    calls[Len(calls)]

\* enrichDataWithIndicators(sorted): the caller's own series
EnrichSeries ==
    /\ Len(calls) < MaxCalls
    /\ calls' = Append(calls, enrichCall(series))
    /\ series' = inputAfter(series)
    /\ UNCHANGED viewVars

\* enrichDataWithIndicators(item.data), enrichDataWithIndicators(cached.data):
\* a series that is the result of an earlier call
ReEnrich ==
    /\ Len(calls) < MaxCalls
    /\ calls # <<>>
    /\ calls' = Append(calls, enrichCall(lastCall.ret))
    /\ UNCHANGED <<series, viewVars>>

\* newData.shift(); enrichDataWithIndicators(newData): the result of an
\* earlier call without its first point
ReEnrichShifted ==
    /\ Len(calls) < MaxCalls
    /\ calls # <<>>
    /\ Len(lastCall.ret) > 0
    /\ calls' = Append(calls, enrichCall(slice(lastCall.ret, 1)))
    /\ UNCHANGED <<series, viewVars>>

NextEngine ==
    \/ EnrichSeries
    \/ ReEnrich
    \/ ReEnrichShifted

SpecEngine ==
    InitEngine /\ [][NextEngine]_vars

----------------------------------------------------------------------------
(* SpecGuard: enrichDataWithIndicators on whatever a caller can pass for   *)
(* rawData, typed any[]: a value that is no array, or an array some        *)
(* element of which is null or undefined (item.data of a stored history    *)
(* entry is passed as it was parsed, line 423).  A value is a record with  *)
(* its kind; the elements of an array are such records too.                *)

jsObject(fields) ==
    [kind |-> "object", fields |-> fields]

jsArray(items) ==
    [kind |-> "array", items |-> items]

\* Array.isArray(rawData)
isArray(x) ==
    x.kind = "array"

\* item.value: reading a property of null or of undefined is a TypeError
readable(item) ==
    item.kind \notin {"null", "undefined"}

\* lines 70-74 for any argument: the guard, then the map over the elements
enrichAny(x) ==
    IF ~isArray(x) \/ Len(x.items) = 0
    THEN [kind |-> "return", value |-> <<>>]
    ELSE IF \E k \in 1..Len(x.items) : ~readable(x.items[k])
    THEN [kind |-> "throw"]
    ELSE [kind |-> "return",
          value |-> enrichDataWithIndicators([k \in 1..Len(x.items) |-> x.items[k].fields])]

\* a series as an array of objects
asArray(seq) ==
    jsArray([k \in 1..Len(seq) |-> jsObject(seq[k])])

GuardInputs ==
    {[kind |-> "null"], [kind |-> "undefined"], jsObject([value |-> 100]),
     [kind |-> "string", text |-> ""], [kind |-> "string", text |-> "abc"]}
      \cup {asArray(engineSeries(shape, n, FALSE)) : shape \in Shapes, n \in {0, 1, 3, 15}}
      \cup {jsArray(<<hole>> \o asArray(engineSeries(shape, n, FALSE)).items) :
               hole \in {[kind |-> "null"], [kind |-> "undefined"]},
               shape \in Shapes, n \in {0, 1, 3}}

InitGuard ==
    /\ series \in GuardInputs
    /\ calls = <<>>
    /\ isLive = FALSE
    /\ connectionStatus = "DISCONNECTED"
    /\ socketRef = 0
    /\ sockets = <<>>
    /\ data = <<>>
    /\ comparisons = <<>>
    /\ searchedSymbol = ""
    /\ period = "1M"
    /\ loading = FALSE
    /\ error = FALSE
    /\ history = <<>>
    /\ pending = {}
    /\ mounted = TRUE
    /\ now = 0
    /\ clock = 0

\* a call with whatever the caller holds: what was passed and how it ended
EnrichAny ==
    /\ Len(calls) < MaxCalls
    /\ calls' = Append(calls, [rawData |-> series, outcome |-> enrichAny(series)])
    /\ UNCHANGED <<series, viewVars>>

NextGuard ==
    EnrichAny

SpecGuard ==
    InitGuard /\ [][NextGuard]_vars

----------------------------------------------------------------------------
(* The claims *)

\* a socket whose connection-delay timer is pending or whose interval runs
hasLiveTimer(s) ==
    sockets[s].openTimer \/ sockets[s].intervalId = "active"

\* C1: after stop() no tick is delivered to the series any more: a tick
\* that changes the state comes from the socket of the session that is live.
C1_NoTickAfterStop ==
    [][\A s \in SocketIds : TickOf(s) => (isLive /\ socketRef = s)]_vars

\* C2: at most one socket has a live timer (a pending connection-delay timer
\* or an active tick interval) in every reachable state.
C2_AtMostOneTimerPair ==
    Cardinality({s \in SocketIds : hasLiveTimer(s)}) <= 1

\* C3: while the session is stopped the status is Disconnected: the stop
\* resets it and nothing sets it before the next start.
C3_StoppedIsDisconnected ==
    ~isLive => connectionStatus = "DISCONNECTED"

\* C4: after the view is unmounted no timer of the session is left, neither
\* the connection-delay timer nor the tick interval.
C4_UnmountReleasesTimers ==
    ~mounted => \A s \in SocketIds : ~hasLiveTimer(s)

\* C5: stop is idempotent: a second stop leaves the session as the first
\* left it, a second close leaves a socket as the first left it, and a stop
\* of a session that is disconnected with no socket changes nothing.
C5_StopIdempotent ==
    /\ stopSession(stopSession(session)) = stopSession(session)
    /\ \A s \in SocketIds : close(close(sockets[s])) = close(sockets[s])
    /\ (socketRef = 0 /\ connectionStatus = "DISCONNECTED") => stopSession(session) = session

\* a stop has acted on a session whose stream was running
C5_Witness ==
    /\ ~isLive
    /\ socketRef = 0
    /\ \E s \in SocketIds : sockets[s].intervalId = "cleared"

\* C6: once WindowCap ticks or more have been handled the series has exactly
\* WindowCap points and its first point is the WindowCap-th most recent tick.
C6_WindowExactlyCap ==
    clock >= WindowCap =>
        /\ Len(data) = WindowCap
        /\ data[1].date = clock - WindowCap + 1

\* C7: after every tick the series holds at most WindowCap points, and when
\* the window was full the tick drops the oldest point only: the others keep
\* their order and the new point is last.
C7_WindowAtMostCap ==
    [][(clock' = clock + 1 /\ data # <<>>) =>
          /\ Len(data') <= WindowCap
          /\ data'[Len(data')].date = clock'
          /\ Len(data) >= WindowCap =>
                \A k \in 1..(Len(data') - 1) : data'[k].date = data[k + 1].date]_vars

\* C8: the status becomes Connecting only from Disconnected, by a start, and
\* becomes Connected only from Connecting, when the connection-delay timer
\* of the current socket fires.
C8_Lifecycle ==
    [][/\ (connectionStatus' = "CONNECTING" /\ connectionStatus # "CONNECTING") =>
             (connectionStatus = "DISCONNECTED" /\ ~isLive /\ isLive')
       /\ (connectionStatus' = "CONNECTED" /\ connectionStatus # "CONNECTED") =>
             /\ connectionStatus = "CONNECTING"
             /\ socketRef # 0
             /\ sockets[socketRef].openTimer
             /\ ~sockets'[socketRef].openTimer]_vars

started ==
    isLive /\ mounted

streamOpen ==
    /\ connectionStatus = "CONNECTED"
    /\ socketRef # 0
    /\ sockets[socketRef].intervalId = "active"

\* C9: a session that is started and not stopped becomes Connected with its
\* tick interval running, and then tick follows tick: every tick count below
\* the bound is passed, and a series that is not empty grows with it.
C9_StartLeadsToTicks ==
    /\ started ~> (~started \/ streamOpen)
    /\ \A k \in 0..(MaxTicks - 1) :
          (started /\ clock = k) ~> (~started \/ clock > k)
    /\ \A k \in 0..(MaxTicks - 1), n \in 1..(WindowCap - 1) :
          (started /\ clock = k /\ Len(data) = n) ~> (~started \/ Len(data) > n)

\* the session is live, its stream is open and ticks have been appended
C9_Witness ==
    /\ started
    /\ streamOpen
    /\ clock = MaxTicks
    /\ Len(data) > MaxTicks

C11_SessionOwnsSeries ==
    [][(isLive /\ isLive' /\ data' # data) =>
          (socketRef # 0 /\ TickOf(socketRef))]_vars

\* the tick evicts: the appended series is longer than the window
evicts ==
    clock' = clock + 1 /\ data # <<>> /\ Len(data) + 1 > WindowCap

\* C23: when a tick evicts the oldest point, every point that stays and had
\* an sma (an rsi) before the tick has the same sma (rsi) after it: the
\* recomputation over the shifted window agrees with the values the longer
\* history gave.
C23_RecomputeKeepsTrailing ==
    [][evicts =>
          \A k \in 2..Len(data) :
              /\ data'[k - 1].date = data[k].date
              /\ data[k].sma # Absent => data'[k - 1].sma = data[k].sma
              /\ data[k].rsi # Absent => data'[k - 1].rsi = data[k].rsi]_vars

----------------------------------------------------------------------------
(* The claims on enrichDataWithIndicators, on the calls of SpecEngine *)

CallIds ==
    1..Len(calls)

\* the fields of a point other than the two the enrichment derives
ownFields(point) ==
    DOMAIN point \ {"sma", "rsi"}

\* C12: every call returns a sequence of the length of its argument, in the
\* same order, in which point i has the date and the numeric value of
\* argument point i and every other field of it (the comparison fields).
C12_SameLengthOrderValues ==
    \A c \in CallIds :
        /\ Len(calls[c].ret) = Len(calls[c].rawData)
        /\ \A k \in 1..Len(calls[c].rawData) :
              /\ calls[c].ret[k].date = calls[c].rawData[k].date
              /\ calls[c].ret[k].value = calls[c].rawData[k].value
              /\ \A f \in ownFields(calls[c].rawData[k]) :
                    /\ f \in DOMAIN calls[c].ret[k]
                    /\ calls[c].ret[k][f] = calls[c].rawData[k][f]

\* a call on a series of several points of different values, with a
\* comparison field
C12_Witness ==
    \E c \in CallIds :
        /\ Len(calls[c].ret) >= smaPeriod
        /\ calls[c].rawData[1].value # calls[c].rawData[2].value
        /\ "MSFT" \in DOMAIN calls[c].ret[1]

\* the arithmetic mean of the values of the points lo .. hi (0-based) of seq
RECURSIVE sumOfValues(_, _, _)
sumOfValues(seq, lo, hi) ==
    IF lo > hi THEN 0 ELSE At(seq, lo).value + sumOfValues(seq, lo + 1, hi)

meanOfValues(seq, lo, hi) ==
    Rat(sumOfValues(seq, lo, hi), hi - lo + 1)

\* C13: in every call, sma of point i is absent (not zero) for i < 19 and is
\* the arithmetic mean of the argument's values i-19 .. i for i >= 19; so a
\* series shorter than 20 has no sma, and point 19 has the mean of 0 .. 19.
C13_SmaIsTrailingMean ==
    \A c \in CallIds :
        \A i \in 0..(Len(calls[c].ret) - 1) :
            IF i < 19
            THEN At(calls[c].ret, i).sma = Absent
            ELSE At(calls[c].ret, i).sma = meanOfValues(calls[c].rawData, i - 19, i)

\* a call on 21 points of different values: sma absent at 18, present from 19
C13_Witness ==
    \E c \in CallIds :
        /\ Len(calls[c].ret) = 21
        /\ At(calls[c].ret, 18).sma = Absent
        /\ At(calls[c].ret, 19).sma # Absent
        /\ At(calls[c].ret, 19).sma # At(calls[c].ret, 20).sma

\* C14: in every call, rsi of point i is absent for i < 14 and is a number
\* for i >= 14: a series shorter than 15 points has no rsi at all.
C14_RsiFromFourteen ==
    \A c \in CallIds :
        \A i \in 0..(Len(calls[c].ret) - 1) :
            (At(calls[c].ret, i).rsi = Absent) <=> (i < 14)

\* calls on a series of 14 points and on a series of 15 points or more
C14_Witness ==
    /\ \E c \in CallIds : Len(calls[c].ret) = 14
    /\ \E c \in CallIds : Len(calls[c].ret) >= 15 /\ At(calls[c].ret, 14).rsi # Absent

\* max(value[i] - value[i-1], 0) and max(value[i-1] - value[i], 0)
gainRef(seq, i) ==
    IF At(seq, i).value > At(seq, i - 1).value
    THEN At(seq, i).value - At(seq, i - 1).value ELSE 0

lossRef(seq, i) ==
    IF At(seq, i - 1).value > At(seq, i).value
    THEN At(seq, i - 1).value - At(seq, i).value ELSE 0

RECURSIVE sumGainRef(_, _, _)
sumGainRef(seq, lo, hi) ==
    IF lo > hi THEN 0 ELSE gainRef(seq, lo) + sumGainRef(seq, lo + 1, hi)

RECURSIVE sumLossRef(_, _, _)
sumLossRef(seq, lo, hi) ==
    IF lo > hi THEN 0 ELSE lossRef(seq, lo) + sumLossRef(seq, lo + 1, hi)

\* Wilder's averages at the indices 14 .. i, in order: the simple averages
\* of transitions 1 .. 14 at 14, then (average * 13 + new) / 14
RECURSIVE wilderUpTo(_, _)
wilderUpTo(seq, i) ==
    IF i = 14
    THEN <<[avgGain |-> Rat(sumGainRef(seq, 1, 14), 14),
            avgLoss |-> Rat(sumLossRef(seq, 1, 14), 14)]>>
    ELSE LET before == wilderUpTo(seq, i - 1)
             last   == before[Len(before)]
         IN  Append(before,
                    [avgGain |-> RDivInt(RAdd(RMulInt(last.avgGain, 13), <<gainRef(seq, i), 1>>), 14),
                     avgLoss |-> RDivInt(RAdd(RMulInt(last.avgLoss, 13), <<lossRef(seq, i), 1>>), 14)])

wilderRef(seq, i) ==
    wilderUpTo(seq, i)[i - 13]

\* 100 - 100 / (1 + rs), rs = 100 when avgLoss is 0, else avgGain / avgLoss
rsiRef(avg) ==
    LET rs == IF avg.avgLoss[1] = 0 THEN <<100, 1>> ELSE RDiv(avg.avgGain, avg.avgLoss)
    IN  RSub(<<100, 1>>, RDiv(<<100, 1>>, RAdd(<<1, 1>>, rs)))

\* C15: in every call, every rsi that is present is the Wilder reference:
\* seeded at 14 with the simple averages of the 14 gains and losses, smoothed
\* with weights 13 and 1 from then on, rs = 100 when avgLoss is 0.
C15_RsiIsWilder ==
    \A c \in CallIds :
        \A i \in 14..(Len(calls[c].ret) - 1) :
            At(calls[c].ret, i).rsi = rsiRef(wilderRef(calls[c].rawData, i))

\* a call on a series with gains and losses, smoothed beyond the seed
C15_Witness ==
    \E c \in CallIds :
        /\ Len(calls[c].ret) >= 17
        /\ wilderRef(calls[c].rawData, 16).avgGain[1] > 0
        /\ wilderRef(calls[c].rawData, 16).avgLoss[1] > 0
        /\ At(calls[c].ret, 16).rsi # At(calls[c].ret, 15).rsi

\* C16: in every call, at every index i >= 14 where avgLoss is 0 the rsi is
\* exactly 100 - 100/101: a number, and not 100, also when
\* avgGain is 0 too.
C16_NoLossConstant ==
    \A c \in CallIds :
        \A i \in 14..(Len(calls[c].ret) - 1) :
            wilderRef(calls[c].rawData, i).avgLoss[1] = 0 =>
                /\ At(calls[c].ret, i).rsi = RSub(<<100, 1>>, Rat(100, 101))
                /\ At(calls[c].ret, i).rsi # <<100, 1>>

\* a call on a constant series: avgGain and avgLoss are both 0
C16_Witness ==
    \E c \in CallIds :
        /\ Len(calls[c].ret) >= 16
        /\ wilderRef(calls[c].rawData, 15).avgLoss[1] = 0
        /\ wilderRef(calls[c].rawData, 15).avgGain[1] = 0
        /\ At(calls[c].ret, 15).rsi # Absent

strictlyIncreasing(seq) ==
    \A k \in 1..(Len(seq) - 1) : seq[k].value < seq[k + 1].value

\* C17: in every call, every rsi that is present lies in [0, 100], and it is
\* below 100 at every index when the series is strictly increasing.
C17_RsiBounded ==
    \A c \in CallIds :
        \A i \in 0..(Len(calls[c].ret) - 1) :
            At(calls[c].ret, i).rsi # Absent =>
                /\ RLeq(<<0, 1>>, At(calls[c].ret, i).rsi)
                /\ RLeq(At(calls[c].ret, i).rsi, <<100, 1>>)
                /\ strictlyIncreasing(calls[c].rawData) =>
                      ~RLeq(<<100, 1>>, At(calls[c].ret, i).rsi)

\* a call on a strictly increasing series that is long enough for an rsi
C17_Witness ==
    \E c \in CallIds :
        /\ Len(calls[c].ret) >= 17
        /\ strictlyIncreasing(calls[c].rawData)
        /\ At(calls[c].ret, 16).rsi # Absent

indicators(seq) ==
    [k \in 1..Len(seq) |-> <<seq[k].sma, seq[k].rsi>>]

\* the series without its derived fields
stripped(seq) ==
    [k \in 1..Len(seq) |-> [f \in ownFields(seq[k]) |-> seq[k][f]]]

\* C20: enriching what an earlier call returned gives the sma and rsi that
\* call gave, and the sma and rsi a call gives are those of its argument
\* without any sma and rsi it came with: stale fields are overwritten.
C20_ReEnrichIdempotent ==
    /\ \A c \in CallIds \ {1} :
          calls[c].rawData = calls[c - 1].ret =>
              indicators(calls[c].ret) = indicators(calls[c - 1].ret)
    /\ \A c \in CallIds :
          indicators(calls[c].ret)
              = indicators(enrichDataWithIndicators(stripped(calls[c].rawData)))

\* a result enriched again, and a shifted result whose stale sma at index
\* 18 has been replaced
C20_Witness ==
    /\ \E c \in CallIds \ {1} :
          /\ calls[c].rawData = calls[c - 1].ret
          /\ Len(calls[c].ret) >= smaPeriod
    /\ \E c \in CallIds :
          /\ Len(calls[c].rawData) >= smaPeriod - 1
          /\ "sma" \in DOMAIN calls[c].rawData[1]
          /\ At(calls[c].rawData, 18).sma # Absent
          /\ At(calls[c].ret, 18).sma = Absent

\* C22: in every call, the sma and rsi of point i are those of point i in
\* the enrichment of the argument's first i + 1 points: the points after i
\* have no influence on point i.
C22_PrefixPure ==
    \A c \in CallIds :
        \A i \in 0..(Len(calls[c].ret) - 1) :
            LET ofPrefix == enrichDataWithIndicators(SubSeq(calls[c].rawData, 1, i + 1))
            IN  /\ At(calls[c].ret, i).sma = At(ofPrefix, i).sma
                /\ At(calls[c].ret, i).rsi = At(ofPrefix, i).rsi

\* a call on 21 points whose values and whose rsi move from point to
\* point, so that the points after an index differ from those before it
C22_Witness ==
    \E c \in CallIds :
        /\ Len(calls[c].ret) = 21
        /\ At(calls[c].ret, 19).sma # Absent
        /\ At(calls[c].ret, 14).rsi # At(calls[c].ret, 20).rsi
        /\ At(calls[c].rawData, 19).value # At(calls[c].rawData, 20).value

----------------------------------------------------------------------------
(* The claims on the tick handler *)

\* a tick is applied to a series that is not empty
ticks ==
    clock' = clock + 1 /\ data # <<>>

\* C24: after every tick the stored series is the enrichment of its own
\* raw values: the raw window is the old one with the new point appended
\* and, when that is longer than the window, without its oldest point, and
\* the stored points carry the sma and rsi computed over exactly that window.
C24_StoredIsEnrichment ==
    [][ticks =>
          LET newPoint == stripped(data')[Len(data')]
              appended == Append(stripped(data), newPoint)
              window   == IF Len(appended) > WindowCap THEN Tail(appended) ELSE appended
          IN  /\ newPoint.date = clock'
              /\ stripped(data') = window
              /\ data' = enrichDataWithIndicators(window)]_vars

\* a tick has evicted the oldest point of a full window
C24_Witness ==
    /\ clock >= 1
    /\ Len(data) = WindowCap
    /\ data[Len(data)].date = clock
    /\ data[1].date = clock - WindowCap + 1
    /\ data[smaPeriod - 1].sma = Absent
    /\ data[smaPeriod].sma # Absent

\* the last known primary value and the value the tick appends, in cents
lastValue ==
    data[Len(data)].value

appendedValue ==
    data'[Len(data')].value

\* the step is a tick of some socket that drew the change c (in 1/10000)
drew(c) ==
    /\ ticks
    /\ \E s \in SocketIds :
          \E compChange \in [Range(sockets[s].comps) -> Changes] :
              IntervalFires(s, c, compChange)

\* C25: the value a tick appends is v * (1 + c) for the last value v and the
\* change c it drew, and so lies between 0.998 * v and 1.002 * v.
C25_ChangeWithinRange ==
    [][\A c \in Changes :
          drew(c) =>
              /\ 10000 * appendedValue = lastValue * (10000 + c)
              /\ 9980 * lastValue <= 10000 * appendedValue
              /\ 10000 * appendedValue <= 10020 * lastValue]_vars

\* C25, amended: the value a tick appends is v * (1 + c) rounded to two
\* decimals: it is within half a cent of v * (1 + c), and so between
\* 0.998 * v - 0.005 and 1.002 * v + 0.005.
C25_RoundedChange ==
    [][\A c \in Changes :
          drew(c) =>
              /\ Abs(10000 * appendedValue - lastValue * (10000 + c)) <= 5000
              /\ 9980 * lastValue - 5000 <= 10000 * appendedValue
              /\ 10000 * appendedValue <= 10020 * lastValue + 5000]_vars

\* a tick has appended a value that differs from the one before it
C25_Witness ==
    /\ clock >= 1
    /\ Len(data) >= 2
    /\ data[Len(data)].date = clock
    /\ data[Len(data)].value # data[Len(data) - 1].value

\* C26: on every tick, for every comparison symbol of the ticking socket:
\* when the last point has a value under the symbol's key, the new point has
\* the key, with a value computed from that last value (a change of at most
\* 0.2%, rounded to two decimals); when the last point has no such key, the
\* new point has none; and the tick is appended in both cases.
C26_ComparisonFollows ==
    [][\A s \in SocketIds :
          (ticks /\ TickOf(s)) =>
              /\ data'[Len(data')].date = clock'
              /\ \A comp \in Range(sockets[s].comps) :
                    IF comp \in DOMAIN data[Len(data)]
                    THEN /\ comp \in DOMAIN data'[Len(data')]
                         /\ \E c \in -20..20 :
                               Abs(10000 * data'[Len(data')][comp]
                                     - data[Len(data)][comp] * (10000 + c)) <= 5000
                    ELSE comp \notin DOMAIN data'[Len(data')]]_vars

\* C27: a tick modifies the series only while the session is live and
\* connected: in every reachable state a socket whose tick interval is active
\* belongs to a live session whose status is Connected, and no tick is
\* applied to the series while the status is Disconnected or Connecting.
C27_TicksOnlyWhileConnected ==
    /\ [](\A s \in SocketIds :
            sockets[s].intervalId = "active" =>
                (isLive /\ connectionStatus = "CONNECTED"))
    /\ [][ticks => (isLive /\ connectionStatus = "CONNECTED")]_vars

\* C28: a tick received while the series is empty leaves it empty: no point
\* is made up without a last price, so a session started on an empty series
\* has an empty series after any number of ticks.
C28_EmptyStaysEmpty ==
    [][(clock' = clock + 1 /\ data = <<>>) => data' = <<>>]_vars

\* two ticks were received on the empty series
C28_Witness ==
    /\ data = <<>>
    /\ clock >= 2
    /\ \E s \in SocketIds : sockets[s].intervalId = "active"

----------------------------------------------------------------------------
(* The claims on the loaders, on Spec *)

\* a load of chart data is invoked while the session is live: a search or a
\* change of the comparisons for a non-blank symbol, or a history item
reloadsWhileLive ==
    /\ isLive
    /\ \/ \E symbol \in SymbolInputs : trim(symbol) # "" /\ handleSearchWrapper(symbol)
       \/ trim(searchedSymbol) # "" /\ (AddComparison \/ RemoveComparison)
       \/ LoadHistory

\* C29: every load of chart data that is invoked while the session is live
\* ends the session: after it isLive is false, the status is Disconnected,
\* the socket of the session is closed and none is current, and no socket
\* is left with a timer that feeds the newly loaded series.
C29_ReloadEndsSession ==
    [][reloadsWhileLive =>
          /\ ~isLive'
          /\ connectionStatus' = "DISCONNECTED"
          /\ socketRef' = 0
          /\ sockets'[socketRef].intervalId # "active"
          /\ \A s \in 1..Len(sockets') :
                ~sockets'[s].openTimer /\ sockets'[s].intervalId # "active"]_vars

\* C30: after addToHistory(sym, per, data), which a fetch without comparisons
\* calls when its answer is not empty, the history has an entry for (sym, per)
\* as its first element, no other entry with this symbol and period, and at
\* most 10 entries; a cache lookup for (sym, per) finds the entry.
C30_HistoryKeepsNewest ==
    [][\A req \in pending, outcome \in FetchOutcomes :
          (/\ mounted
           /\ outcome.kind = "ok"
           /\ Len(outcome.main) > 0
           /\ Len(req.compSyms) = 0
           /\ fetchReturns(req, outcome)) =>
              LET sym == toUpperCase(req.term)
                  per == req.currPeriod
              IN  /\ Len(history') >= 1
                  /\ history'[1].symbol = sym
                  /\ history'[1].period = per
                  /\ \A k \in 2..Len(history') :
                        ~(history'[k].symbol = sym /\ history'[k].period = per)
                  /\ Len(history') <= HistoryCap
                  /\ cacheFind(history', req.term, per) # <<>>
                  /\ now - cacheFind(history', req.term, per)[1].timestamp < CacheTtl]_vars

----------------------------------------------------------------------------
(* The claim on the guard of enrichDataWithIndicators, on SpecGuard *)

\* C21: enrichDataWithIndicators never fails: every call returns, and a
\* call on an empty array or on a value that is no array (null, undefined,
\* an object, a string) returns the empty sequence.
C21_NeverFails ==
    \A c \in CallIds :
        /\ calls[c].outcome.kind = "return"
        /\ (IF isArray(calls[c].rawData) THEN Len(calls[c].rawData.items) = 0 ELSE TRUE)
              => calls[c].outcome.value = <<>>

====
